---- MODULE Spec2Model ----
(***************************************************************************)
(* Model of src/main.py: the candle fetch with its retry loop, the signal  *)
(* labelling, the backtest scoring, the trade plan and the /signal         *)
(* handler that strings them together.                                     *)
(*                                                                         *)
(* Prices are integers.  A float column that may hold NaN is modelled as   *)
(* a sequence of length 0 (NaN) or 1 (<<v>>), so that a comparison with    *)
(* NaN is false and arithmetic on NaN yields NaN, as in Python.            *)
(*                                                                         *)
(* pandas_ta is an external library.  Its output at a bar is carried by    *)
(* the candle as the columns ema10, ema30, rsi14 and atr14 (the value the  *)
(* library reports at that bar once its window is full); the model masks   *)
(* the bars before the window is full with NaN.                            *)
(***************************************************************************)
EXTENDS Integers, Sequences, FiniteSets, TLC

VARIABLES
  pc,        \* position of the running function
  attempt,   \* failed attempts of the running fetch_klines call
  fetchLog,  \* outcome of each call of the candle source by that call
  evalCalls, \* calls of the candle source made inside calculate_win_rate
  pulls,     \* the candle series fetch_klines returned while handling /signal
  df,        \* the candle series at hand
  frame,     \* df after generate_signals
  info,      \* what analyze_trend returned
  result,    \* what calculate_win_rate computed
  raised,    \* fetch_klines raised ConnectionError
  reply,     \* the text sent to the user
  sent       \* replies sent while handling /signal

vars == <<pc, attempt, fetchLog, evalCalls, pulls, df, frame, info, result,
          raised, reply, sent>>

(* ------------------------------ constants ------------------------------ *)

FastLen == 10
SlowLen == 30
RsiLen == 14
AtrLen == 14
Overbought == 70
Oversold == 30
MaxAttempts == 3
DefaultLimit == 500
LimitPad == 50
LookbackSignals == 100

(* -------------------------------- bounds ------------------------------- *)

\* bars of a series past the first bar at which the slow EMA is defined
MaxTail == 3
\* largest lookback handed to calculate_win_rate
MaxLookback == 2

(* ------------------------------ NaN floats ----------------------------- *)

NaN == <<>>

F(x) == <<x>>

Lt(a, b) == a # NaN /\ b # NaN /\ a[1] < b[1]

Gt(a, b) == a # NaN /\ b # NaN /\ a[1] > b[1]

Add(a, b) == IF a = NaN \/ b = NaN THEN NaN ELSE F(a[1] + b[1])

Sub(a, b) == IF a = NaN \/ b = NaN THEN NaN ELSE F(a[1] - b[1])

Mul(a, b) == IF a = NaN \/ b = NaN THEN NaN ELSE F(a[1] * b[1])

(* --------------------------- candle series ----------------------------- *)

Closes == {10, 11}
FastVals == {9, 10, 11}
SlowVals == {10}
Readings == {<<30, 2>>, <<50, 0>>, <<70, 2>>}

Candle(c, f, s, r) ==
  [close |-> c, ema10 |-> f, ema30 |-> s, rsi14 |-> r[1], atr14 |-> r[2]]

TailBars == {Candle(c, f, s, r) : c \in Closes, f \in FastVals,
                                   s \in SlowVals, r \in Readings}

\* bar i (0-based) of the part of a series before the slow EMA exists
PrefixBar(i) ==
  IF i % 2 = 0 THEN Candle(10, 9, 10, <<50, 2>>)
               ELSE Candle(11, 11, 10, <<50, 2>>)

Prefix(n) == [p \in 1..n |-> PrefixBar(p - 1)]

\* The first bar with a slow EMA cannot be labelled (its predecessor has
\* none) and is no signal's next bar: only its EMA pair is ever read.
FirstTailBars == {Candle(10, f, s, <<50, 2>>) : f \in FastVals, s \in SlowVals}

Tails == UNION {{<<b>> \o t : b \in FirstTailBars, t \in [1..k -> TailBars]} :
                k \in 0..(MaxTail - 1)}

Series == {Prefix(n) : n \in 0..(SlowLen - 1)} \cup
          {Prefix(SlowLen - 1) \o t : t \in Tails}

(* --------------------------- generate_signals -------------------------- *)

ema(df0, col, length) ==
  [p \in 1..Len(df0) |-> IF p - 1 >= length - 1 THEN F(df0[p][col]) ELSE NaN]

rma(df0, col, length) ==
  [p \in 1..Len(df0) |-> IF p - 1 >= length THEN F(df0[p][col]) ELSE NaN]

\* mutant: the slow EMA computed with the fast length
Indicators_slow10(df0) ==
  LET fast == ema(df0, "ema10", FastLen)
      slow == ema(df0, "ema30", FastLen)
      rsi  == rma(df0, "rsi14", RsiLen)
      atr  == rma(df0, "atr14", AtrLen)
  IN  [p \in 1..Len(df0) |->
         [close |-> df0[p].close, EMA_fast |-> fast[p], EMA_slow |-> slow[p],
          RSI |-> rsi[p], ATR |-> atr[p]]]

Indicators(df0) ==
  LET fast == ema(df0, "ema10", FastLen)
      slow == ema(df0, "ema30", SlowLen)
      rsi  == rma(df0, "rsi14", RsiLen)
      atr  == rma(df0, "atr14", AtrLen)
  IN  [p \in 1..Len(df0) |->
         [close |-> df0[p].close, EMA_fast |-> fast[p], EMA_slow |-> slow[p],
          RSI |-> rsi[p], ATR |-> atr[p]]]

\* mutant: the RSI thresholds taken inclusively
Label_inclusive(prev, curr) ==
  IF Lt(prev.EMA_fast, prev.EMA_slow) /\ Gt(curr.EMA_fast, curr.EMA_slow)
     /\ ~Gt(curr.RSI, F(Overbought)) /\ curr.RSI # NaN
  THEN "LONG"
  ELSE IF Gt(prev.EMA_fast, prev.EMA_slow) /\ Lt(curr.EMA_fast, curr.EMA_slow)
          /\ ~Lt(curr.RSI, F(Oversold)) /\ curr.RSI # NaN
       THEN "SHORT"
       ELSE "NONE"

Label(prev, curr) ==
  IF Lt(prev.EMA_fast, prev.EMA_slow) /\ Gt(curr.EMA_fast, curr.EMA_slow)
     /\ Lt(curr.RSI, F(Overbought))
  THEN "LONG"
  ELSE IF Gt(prev.EMA_fast, prev.EMA_slow) /\ Lt(curr.EMA_fast, curr.EMA_slow)
          /\ Gt(curr.RSI, F(Oversold))
       THEN "SHORT"
       ELSE "NONE"

generate_signals(df0) ==
  LET ind == Indicators(df0)
  IN  [p \in 1..Len(df0) |->
         [close |-> ind[p].close, EMA_fast |-> ind[p].EMA_fast,
          EMA_slow |-> ind[p].EMA_slow, RSI |-> ind[p].RSI, ATR |-> ind[p].ATR,
          signal |-> IF p = 1 THEN "NONE" ELSE Label(ind[p - 1], ind[p])]]

(* ---------------------------- analyze_trend ---------------------------- *)

\* df.dropna(subset=['signal']): the positions (1-based) of the labelled rows
dropna(fr) ==
  SelectSeq([p \in 1..Len(fr) |-> p], LAMBDA p : fr[p].signal # "NONE")

\* mutant: the first labelled row instead of the last
analyze_trend_first(fr) ==
  LET rows == dropna(fr)
  IN  IF rows = <<>>
      THEN [signal |-> "NONE"]
      ELSE LET row       == fr[rows[1]]
               entry     == F(row.close)
               atr       == row.ATR
               direction == row.signal
               sign      == IF direction = "LONG" THEN F(1) ELSE F(-1)
           IN  [signal      |-> direction,
                entry       |-> entry,
                stop_loss   |-> Sub(entry, Mul(atr, sign)),
                take_profit |-> Add(entry, Mul(Mul(atr, F(2)), sign)),
                rsi         |-> row.RSI]

\* mutant: the sign of the direction inverted
analyze_trend_swapped(fr) ==
  LET rows == dropna(fr)
  IN  IF rows = <<>>
      THEN [signal |-> "NONE"]
      ELSE LET row       == fr[rows[Len(rows)]]
               entry     == F(row.close)
               atr       == row.ATR
               direction == row.signal
               sign      == IF direction = "SHORT" THEN F(1) ELSE F(-1)
           IN  [signal      |-> direction,
                entry       |-> entry,
                stop_loss   |-> Sub(entry, Mul(atr, sign)),
                take_profit |-> Add(entry, Mul(Mul(atr, F(2)), sign)),
                rsi         |-> row.RSI]

\* lines 106-121, on the frame generate_signals returned
analyze_trend(fr) ==
  LET rows == dropna(fr)
  IN  IF rows = <<>>
      THEN [signal |-> "NONE"]
      ELSE LET row       == fr[rows[Len(rows)]]
               entry     == F(row.close)
               atr       == row.ATR
               direction == row.signal
               sign      == IF direction = "LONG" THEN F(1) ELSE F(-1)
           IN  [signal      |-> direction,
                entry       |-> entry,
                stop_loss   |-> Sub(entry, Mul(atr, sign)),
                take_profit |-> Add(entry, Mul(Mul(atr, F(2)), sign)),
                rsi         |-> row.RSI]

(* -------------------------- calculate_win_rate ------------------------- *)

\* mutant: head(n) instead of tail(n)
tail_head(s, n) == IF Len(s) <= n THEN s ELSE SubSeq(s, 1, n)

\* DataFrame.tail(n), n >= 0
tail(s, n) == IF Len(s) <= n THEN s ELSE SubSeq(s, Len(s) - n + 1, Len(s))

\* df['close'].shift(-1).iloc[idx]: the close of the next row, NaN on the last
next_price(fr, p) == IF p + 1 <= Len(fr) THEN F(fr[p + 1].close) ELSE NaN

is_win(fr, p) ==
  \/ fr[p].signal = "LONG"  /\ Gt(next_price(fr, p), F(fr[p].close))
  \/ fr[p].signal = "SHORT" /\ Lt(next_price(fr, p), F(fr[p].close))

\* round(x, 2) of x = 100 * wins / n, in hundredths of a percent
\* (round half to even, as Python rounds)
round2(wins, n) ==
  LET num == 10000 * wins
      q   == num \div n
      r   == num % n
  IN  IF 2 * r > n THEN q + 1
      ELSE IF 2 * r = n THEN q + (q % 2)
      ELSE q

\* mutant: the division left unguarded, 0 / 0 giving NaN
win_rate_of_nan(wins, n) == IF n # 0 THEN F(round2(wins, n)) ELSE NaN

win_rate_of(wins, n) == IF n # 0 THEN F(round2(wins, n)) ELSE F(0)

\* lines 94-101, on the frame generate_signals returned
calculate_win_rate(fr, lookback) ==
  LET signals == tail(dropna(fr), lookback)
      wins    == Cardinality({k \in 1..Len(signals) : is_win(fr, signals[k])})
  IN  [scored   |-> TRUE,
       lookback |-> lookback,
       signals  |-> signals,
       wins     |-> wins,
       win_rate |-> win_rate_of(wins, Len(signals))]

(* ------------------------------- state --------------------------------- *)

NoInfo == [signal |-> "unset"]

NoResult == [scored |-> FALSE, lookback |-> 0, signals |-> <<>>, wins |-> 0,
             win_rate |-> NaN]

NoReply == [kind |-> "none"]

FailureText == [kind |-> "failure"]

SignalText(i, w) == [kind |-> "signal", info |-> i, win_rate |-> w]

Fresh ==
  /\ attempt = 0
  /\ fetchLog = <<>>
  /\ evalCalls = 0
  /\ pulls = <<>>
  /\ frame = <<>>
  /\ info = NoInfo
  /\ result = NoResult
  /\ raised = FALSE
  /\ reply = NoReply
  /\ sent = 0

(* --------------------- the pure functions on a pull -------------------- *)

InitCore ==
  /\ pc = "core"
  /\ df \in Series
  /\ Fresh

CoreAnalyze ==
  /\ pc = "core"
  /\ frame' = generate_signals(df)
  /\ info' = analyze_trend(frame')
  /\ pc' = "core_planned"
  /\ UNCHANGED <<attempt, fetchLog, evalCalls, pulls, df, result, raised, reply, sent>>

CoreScore ==
  /\ pc = "core"
  /\ frame' = generate_signals(df)
  /\ \E lookback \in 0..MaxLookback :
       /\ Len(df) <= lookback + LimitPad
       /\ result' = calculate_win_rate(frame', lookback)
  /\ pc' = "core_scored"
  /\ UNCHANGED <<attempt, fetchLog, evalCalls, pulls, df, info, raised, reply, sent>>

NextCore == CoreAnalyze \/ CoreScore

SpecCore == InitCore /\ [][NextCore]_vars

(* --------------------------- the /signal handler ----------------------- *)

\* what the candle source may answer in the handler's runs
HandlerBars == {b \in TailBars : b.close = 10 /\ b.ema10 # 10 /\ b.rsi14 = 50}

HandlerSeries ==
  {Prefix(0), Prefix(SlowLen - 1)} \cup
  {Prefix(SlowLen - 1) \o <<a, b>> : a \in FirstTailBars \ {Candle(10, 10, 10, <<50, 2>>)},
                                      b \in HandlerBars}

Source(limit) == {s \in HandlerSeries : Len(s) <= limit}

\* mutant: one attempt more
exhausted_late(n) == n > MaxAttempts

\* range(3) is used up
exhausted(n) == n >= MaxAttempts

\* mutant: the except branch keeps the plan already computed
except_text_partial(i) == SignalText(i, NaN)

\* the text of the except branch
except_text(i) == FailureText

Init ==
  /\ pc = "idle"
  /\ df = <<>>
  /\ Fresh

\* /signal arrives: signal_handler starts and calls fetch_klines(symbol)
Command ==
  /\ pc \in {"idle", "replied"}
  /\ pc' = "plan_fetch"
  /\ attempt' = 0
  /\ fetchLog' = <<>>
  /\ evalCalls' = 0
  /\ pulls' = <<>>
  /\ df' = <<>>
  /\ frame' = <<>>
  /\ info' = NoInfo
  /\ result' = NoResult
  /\ raised' = FALSE
  /\ reply' = NoReply
  /\ sent' = 0

Fetching == pc \in {"plan_fetch", "wr_fetch"}

Limit == IF pc = "plan_fetch" THEN DefaultLimit ELSE LookbackSignals + LimitPad

CountEval == evalCalls' = IF pc = "wr_fetch" THEN evalCalls + 1 ELSE evalCalls

\* one pass of the loop of fetch_klines in which the source answers
FetchOk ==
  /\ Fetching
  /\ \E s \in Source(Limit) :
       /\ df' = s
       /\ pulls' = Append(pulls, s)
  /\ fetchLog' = Append(fetchLog, "ok")
  /\ CountEval
  /\ pc' = IF pc = "plan_fetch" THEN "analyze" ELSE "wr_eval"
  /\ UNCHANGED <<attempt, frame, info, result, raised, reply, sent>>

\* one pass in which the source fails; after the last one fetch_klines
\* raises, signal_handler catches and sends the text of the except branch
FetchFail ==
  /\ Fetching
  /\ fetchLog' = Append(fetchLog, "fail")
  /\ CountEval
  /\ attempt' = attempt + 1
  /\ IF exhausted(attempt + 1)
     THEN /\ raised' = TRUE
          /\ reply' = except_text(info)
          /\ sent' = sent + 1
          /\ pc' = "replied"
     ELSE /\ pc' = pc
          /\ UNCHANGED <<raised, reply, sent>>
  /\ UNCHANGED <<pulls, df, frame, info, result>>

\* analyze_trend(df), then calculate_win_rate starts and calls fetch_klines
AnalyzeTrend ==
  /\ pc = "analyze"
  /\ frame' = generate_signals(df)
  /\ info' = analyze_trend(frame')
  /\ attempt' = 0
  /\ fetchLog' = <<>>
  /\ pc' = "wr_fetch"
  /\ UNCHANGED <<evalCalls, pulls, df, result, raised, reply, sent>>

\* mutant: the backtest run on the series the plan was built from
WinRateEval_stale ==
  /\ pc = "wr_eval"
  /\ frame' = generate_signals(pulls[1])
  /\ result' = calculate_win_rate(frame', LookbackSignals)
  /\ pc' = "news"
  /\ UNCHANGED <<attempt, fetchLog, evalCalls, pulls, df, info, raised, reply, sent>>

\* the rest of calculate_win_rate, on the series its fetch returned
WinRateEval ==
  /\ pc = "wr_eval"
  /\ frame' = generate_signals(df)
  /\ result' = calculate_win_rate(frame', LookbackSignals)
  /\ pc' = "news"
  /\ UNCHANGED <<attempt, fetchLog, evalCalls, pulls, df, info, raised, reply, sent>>

\* fetch_news and the text; a malformed news entry raises into the except
\* branch; then the reply is sent
Reply ==
  /\ pc = "news"
  /\ \E newsOk \in BOOLEAN :
       reply' = IF newsOk THEN SignalText(info, result.win_rate)
                ELSE except_text(info)
  /\ sent' = sent + 1
  /\ pc' = "replied"
  /\ UNCHANGED <<attempt, fetchLog, evalCalls, pulls, df, frame, info, result, raised>>

Next == Command \/ FetchOk \/ FetchFail \/ AnalyzeTrend \/ WinRateEval \/ Reply

Spec == Init /\ [][Next]_vars

(* ------------------------- properties: helpers ------------------------- *)

Def(x) == x # NaN

Labelled == pc \in {"core_planned", "core_scored"}

Signalled == {p \in 1..Len(frame) : frame[p].signal # "NONE"}

LastSignalled == CHOOSE p \in Signalled : \A q \in Signalled : q <= p

Compared(prev, curr) ==
  /\ Def(prev.EMA_fast) /\ Def(prev.EMA_slow)
  /\ Def(curr.EMA_fast) /\ Def(curr.EMA_slow) /\ Def(curr.RSI)

UpCross(prev, curr) ==
  /\ Compared(prev, curr)
  /\ prev.EMA_fast[1] < prev.EMA_slow[1]
  /\ curr.EMA_fast[1] > curr.EMA_slow[1]
  /\ curr.RSI[1] < 70

DownCross(prev, curr) ==
  /\ Compared(prev, curr)
  /\ prev.EMA_fast[1] > prev.EMA_slow[1]
  /\ curr.EMA_fast[1] < curr.EMA_slow[1]
  /\ curr.RSI[1] > 30

Tie(bar) ==
  Def(bar.EMA_fast) /\ Def(bar.EMA_slow) /\ bar.EMA_fast[1] = bar.EMA_slow[1]

(* ------------------------------ properties ----------------------------- *)

\* C1: bar 0 is NONE; bar i >= 1 is LONG iff the fast EMA was below the slow
\* one at bar i-1, is above it at bar i and RSI at bar i is below 70; SHORT
\* iff it was above, is below and RSI is above 30; NONE otherwise, in
\* particular when a compared value is undefined or the EMAs are equal.
C1_SignalRule ==
  Labelled =>
    /\ Len(frame) = Len(df)
    /\ \A p \in 1..Len(frame) :
         LET sig == frame[p].signal
         IN  /\ sig \in {"LONG", "SHORT", "NONE"}
             /\ p = 1 => sig = "NONE"
             /\ p > 1 =>
                  LET prev == frame[p - 1]
                      curr == frame[p]
                  IN  /\ sig = "LONG" <=> UpCross(prev, curr)
                      /\ sig = "SHORT" <=> DownCross(prev, curr)
                      /\ sig = "NONE" <=>
                           ~UpCross(prev, curr) /\ ~DownCross(prev, curr)
                      /\ ~Compared(prev, curr) \/ Tie(prev) \/ Tie(curr)
                           => sig = "NONE"

C1_Witness ==
  /\ Labelled
  /\ \E p, q \in 2..Len(frame) :
       /\ frame[p].signal = "LONG"
       /\ frame[q].signal = "SHORT"

\* C2: a signal on the last bar counts neither as a win nor in the sample
\* size that win_rate is divided by.
C2_LastBarExcluded ==
  pc = "core_scored" =>
    LET sel     == result.signals
        counted == {k \in 1..Len(sel) : sel[k] < Len(frame)}
    IN  result.win_rate =
          IF counted = {} THEN F(0)
          ELSE F(round2(Cardinality({k \in counted : is_win(frame, sel[k])}),
                        Cardinality(counted)))

\* C3: the scored signals are the last `lookback` labelled bars in
\* chronological order (all of them when fewer exist), and the wins are those
\* of them that are LONG with a higher close on the next bar of the series or
\* SHORT with a lower one.
C3_LastLookbackScored ==
  pc = "core_scored" =>
    LET sel == result.signals
        n   == Cardinality(Signalled)
    IN  /\ Len(sel) = IF n < result.lookback THEN n ELSE result.lookback
        /\ \A k \in 1..Len(sel) : sel[k] \in Signalled
        /\ \A k \in 1..(Len(sel) - 1) : sel[k] < sel[k + 1]
        /\ \A q \in Signalled :
             (\A k \in 1..Len(sel) : sel[k] # q) =>
               \A k \in 1..Len(sel) : q < sel[k]
        /\ result.wins = Cardinality({k \in 1..Len(sel) :
             LET p == sel[k]
             IN  /\ p + 1 <= Len(frame)
                 /\ \/ /\ frame[p].signal = "LONG"
                       /\ frame[p + 1].close > frame[p].close
                    \/ /\ frame[p].signal = "SHORT"
                       /\ frame[p + 1].close < frame[p].close})

C3_Witness ==
  /\ pc = "core_scored"
  /\ result.lookback >= 1
  /\ Cardinality(Signalled) > result.lookback

\* C4: win_rate (in hundredths of a percent) is a number between 0 and 100
\* percent, and is 0 when nothing was scored.
C4_WinRateRange ==
  pc = "core_scored" =>
    /\ Def(result.win_rate)
    /\ result.win_rate[1] >= 0
    /\ result.win_rate[1] <= 10000
    /\ Len(result.signals) = 0 => result.win_rate = F(0)

C4_Witness ==
  /\ pc = "core_scored"
  /\ Len(frame) > SlowLen
  /\ result.lookback >= 1
  /\ result.signals = <<>>
  /\ result.win_rate = F(0)

\* C5: the plan comes from the most recent labelled bar: its signal, its
\* close as entry, stop and target one and two ATR of that bar away on the
\* sides the direction asks for; with no labelled bar the plan is NONE alone.
C5_PlanFromLastSignal ==
  pc = "core_planned" =>
    IF Signalled = {}
    THEN info = [signal |-> "NONE"]
    ELSE LET row == frame[LastSignalled]
         IN  /\ info.signal = row.signal
             /\ info.entry = F(row.close)
             /\ Def(row.ATR)
             /\ row.signal = "LONG" =>
                  /\ info.stop_loss = F(row.close - row.ATR[1])
                  /\ info.take_profit = F(row.close + 2 * row.ATR[1])
             /\ row.signal = "SHORT" =>
                  /\ info.stop_loss = F(row.close + row.ATR[1])
                  /\ info.take_profit = F(row.close - 2 * row.ATR[1])

C5_Witness ==
  /\ pc = "core_planned"
  /\ info.signal = "LONG"
  /\ \E p \in Signalled :
       /\ p < LastSignalled
       /\ frame[p].ATR # frame[LastSignalled].ATR
       /\ frame[p].close # frame[LastSignalled].close

\* C6 as stated: a LONG plan has stop_loss < entry < take_profit and a SHORT
\* plan take_profit < entry < stop_loss, whatever ATR >= 0 the bar has.
C6_StrictOrder ==
  pc = "core_planned" =>
    /\ info.signal = "LONG" =>
         /\ Def(info.stop_loss) /\ Def(info.take_profit)
         /\ info.stop_loss[1] < info.entry[1]
         /\ info.entry[1] < info.take_profit[1]
    /\ info.signal = "SHORT" =>
         /\ Def(info.stop_loss) /\ Def(info.take_profit)
         /\ info.take_profit[1] < info.entry[1]
         /\ info.entry[1] < info.stop_loss[1]

\* C6 amended: the order is strict when the ATR of the chosen bar is
\* positive; when it is 0 the three prices are equal.
C6_OrderByAtr ==
  pc = "core_planned" /\ info.signal \in {"LONG", "SHORT"} =>
    LET atr == frame[LastSignalled].ATR
    IN  /\ Def(atr) /\ Def(info.stop_loss) /\ Def(info.take_profit)
        /\ atr[1] > 0 /\ info.signal = "LONG" =>
             /\ info.stop_loss[1] < info.entry[1]
             /\ info.entry[1] < info.take_profit[1]
        /\ atr[1] > 0 /\ info.signal = "SHORT" =>
             /\ info.take_profit[1] < info.entry[1]
             /\ info.entry[1] < info.stop_loss[1]
        /\ atr[1] = 0 =>
             /\ info.stop_loss = info.entry
             /\ info.take_profit = info.entry

C6_Witness ==
  /\ pc = "core_planned"
  /\ info.signal = "SHORT"
  /\ frame[LastSignalled].ATR = F(2)
  /\ info.take_profit[1] < info.entry[1]
  /\ info.entry[1] < info.stop_loss[1]

\* C7: one call of fetch_klines calls the source at most 3 times, makes no
\* call after one that succeeded, returns that call's candles, and raises
\* exactly when 3 calls failed.
C7_BoundedRetry ==
  /\ Len(fetchLog) <= 3
  /\ \A k \in 1..(Len(fetchLog) - 1) : fetchLog[k] = "fail"
  /\ Fetching => \A k \in 1..Len(fetchLog) : fetchLog[k] = "fail"
  /\ Fetching => Len(fetchLog) < 3
  /\ pc \in {"analyze", "wr_eval"} =>
       /\ fetchLog # <<>>
       /\ fetchLog[Len(fetchLog)] = "ok"
       /\ pulls # <<>>
       /\ df = pulls[Len(pulls)]
  /\ raised <=> fetchLog = <<"fail", "fail", "fail">>

C7_Witness ==
  /\ pc = "analyze"
  /\ fetchLog = <<"fail", "fail", "ok">>
  /\ Len(df) > SlowLen

C9_FailureReply ==
  /\ sent <= 1
  /\ raised =>
       /\ pc = "replied"
       /\ sent = 1
       /\ reply = FailureText

C9_Witness ==
  /\ raised
  /\ info.signal = "LONG"
  /\ Len(pulls) = 1
  /\ reply = FailureText

\* C10: every labelled bar has index >= 30, where RSI and ATR are defined,
\* so the stop and the target of a plan are never NaN.
C10_SignalsAfterWarmup ==
  Labelled =>
    /\ \A p \in Signalled :
         /\ p - 1 >= 30
         /\ Def(frame[p].RSI)
         /\ Def(frame[p].ATR)
    /\ pc = "core_planned" /\ info.signal \in {"LONG", "SHORT"} =>
         /\ Def(info.stop_loss)
         /\ Def(info.take_profit)

C10_Witness ==
  /\ pc = "core_planned"
  /\ Len(frame) > 30
  /\ frame[31].signal = "LONG"
  /\ Def(info.stop_loss)

====
